---- MODULE Spec2Model ----
(***************************************************************************)
(* A model of the SSD1351 colour OLED driver of py-gaugette                *)
(* (src/gaugette/ssd1351.py, src/gaugette/spi.py).                         *)
(*                                                                         *)
(* The driver is single threaded and synchronous.  Every public method of  *)
(* class SSD1351 is one action; data(), whose chunk loop issues several    *)
(* transport writes, is modelled one loop iteration per step so that the   *)
(* level of the control line during every write is observable.             *)
(*                                                                         *)
(* Conventions                                                             *)
(*  - Python lists are sequences; Python index i is TLA+ index i + 1.      *)
(*  - The module is Python 2 code (integer "/"); "/" is \div.              *)
(*  - Bitmap.__init__ and Bitmap.draw_text name BITS_PER_PIXEL without the *)
(*    class qualifier.  The model resolves the name to the class attribute *)
(*    Bitmap.BITS_PER_PIXEL = 16, the value the code intends.              *)
(*  - spi.writebytes and gpio.output are external capabilities.  A         *)
(*    transport write either succeeds or raises; the exception propagates  *)
(*    through the driver, which has no try/except/finally anywhere.        *)
(*  - trace holds the pin and bus events of the current (or most recent)   *)
(*    public call, old the backing store at the start of that call, last   *)
(*    the call itself, err the exception it raised ("none" if it returned) *)
(*    and ret its return value.                                            *)
(***************************************************************************)
EXTENDS Integers, Sequences, FiniteSets, TLC

VARIABLES
    platform,    \* gaugette.platform
    rows,        \* self.rows
    cols,        \* self.cols
    col_offset,  \* self.col_offset
    bitmap,      \* self.bitmap: [rows, cols, bytes_per_col, data]
    dc,          \* level of the data/command pin
    rst,         \* level of the reset pin
    pc,          \* "idle", or "data" inside the chunk loop of data()
    bytes,       \* data(): the payload
    start,       \* data(): local start
    remaining,   \* data(): local remaining
    trace,       \* pin and bus events of the current public call
    last,        \* the current (most recent) public call: [op, a]
    err,         \* exception raised by that call, "none" otherwise
    ret,         \* value returned by that call (0 when it returns None)
    old,         \* bitmap.data when that call started
    stdout,      \* lines printed by that call (dump)
    busFault     \* some transport write has raised since construction

vars == <<platform, rows, cols, col_offset, bitmap, dc, rst, pc, bytes,
          start, remaining, trace, last, err, ret, old, stdout, busFault>>

cfgVars == <<platform, rows, cols, col_offset>>
loopVars == <<bytes, start, remaining>>

----------------------------------------------------------------------------
(* Bounds of the model.                                                    *)

\* direct data() calls use payloads of up to MaxChunks full chunks, +-1 byte
MaxChunks == 2
\* longest string handed to the text operations
MaxStrLen == 2

\* the longest string handed to text_width on its own
MaxWidthLen == 4

----------------------------------------------------------------------------
(* Constants of class SSD1351 (ssd1351.py:51-84).                          *)

MEMORY_MODE_VERT   == \h01
CMD_SETCOLUMN      == \h15
CMD_SETROW         == \h75
CMD_SETREMAP       == \hA0
CMD_STARTLINE      == \hA1
CMD_DISPLAYOFFSET  == \hA2
CMD_NORMALDISPLAY  == \hA6
CMD_INVERTDISPLAY  == \hA7
CMD_FUNCTIONSELECT == \hAB
CMD_DISPLAYOFF     == \hAE
CMD_DISPLAYON      == \hAF
CMD_PRECHARGE      == \hB1
CMD_CLOCKDIV       == \hB3
CMD_SETVSL         == \hB4
CMD_SETGPIO        == \hB5
CMD_PRECHARGE2     == \hB6
CMD_VCOMH          == \hBE
CMD_CONTRASTABC    == \hC1
CMD_CONTRASTMASTER == \hC7
CMD_MUXRATIO       == \hCA
CMD_COMMANDLOCK    == \hFD

BITS_PER_PIXEL == 16

LOW  == 0
HIGH == 1

----------------------------------------------------------------------------
(* Python helpers.                                                         *)

Min(a, b) == IF a <= b THEN a ELSE b

\* seq[a:b] for 0 <= a, 0 <= b: clamped to the list, never an error
Slice(seq, a, b) == SubSeq(seq, a + 1, Min(b, Len(seq)))

RECURSIVE Concat(_)
Concat(ss) == IF ss = <<>> THEN <<>> ELSE Head(ss) \o Concat(Tail(ss))

----------------------------------------------------------------------------
(* Events: what reaches the pins and the bus.                              *)

\* gpio.output(pin, level)
PinEv(p, l) ==
    [kind |-> "pin", pin |-> p, level |-> l, src |-> "gpio", bytes |-> <<>>,
     dc |-> IF p = "dc" THEN l ELSE dc, rst |-> IF p = "rst" THEN l ELSE rst]

\* spi.writebytes(bs), issued by method m while the pins are at (d, r)
WriteEv(m, bs, d, r) ==
    [kind |-> "write", pin |-> "spi", level |-> d, src |-> m, bytes |-> bs,
     dc |-> d, rst |-> r]

Writes(t) == SelectSeq(t, LAMBDA e : e.kind = "write")
WritesOf(t, m) == SelectSeq(t, LAMBDA e : e.kind = "write" /\ e.src = m)

\* max_xfer of data()
max_xfer == IF platform = "beaglebone" THEN 255 ELSE 1024

----------------------------------------------------------------------------
(* class Bitmap.                                                           *)

Bitmap_init(c, r) ==
    LET bpc == r * (BITS_PER_PIXEL \div 8)
    IN  [rows |-> r, cols |-> c, bytes_per_col |-> bpc,
         data |-> [i \in 1..(c * bpc) |-> 0]]

Bitmap_clear(b) == [b EXCEPT !.data = [i \in 1..Len(b.data) |-> 0]]

\* faulty variant: the column test off by one
OutOfRange_inclusive(b, x, y) == x < 0 \/ x > b.cols \/ y < 0 \/ y >= b.rows

\* the guard of draw_pixel: the coordinates that are ignored
OutOfRange(b, x, y) == x < 0 \/ x >= b.cols \/ y < 0 \/ y >= b.rows

\* the store index (Python, 0-based) draw_pixel writes for (x, y)
PixelOffset(b, x, y) == (y \div 8) + b.rows * x

\* faulty variant: "off" stores the "on" value too
PixelValue_always_on(on) == \h0F

\* faulty variant: "on" fills the whole byte
PixelValue_white(on) == IF on THEN \hFF ELSE 0

\* the value draw_pixel stores
PixelValue(on) == IF on THEN \h0F ELSE 0

Bitmap_draw_pixel(b, x, y, on) ==
    IF OutOfRange(b, x, y) THEN b
    ELSE [b EXCEPT !.data[PixelOffset(b, x, y) + 1] = PixelValue(on)]

\* The store after the draw_pixel calls <<x, y, on>> of the sequence calls,
\* made in order: a cell holds what the last call that hit it stored.
DrawPixels(b, calls) ==
    LET hit(k) == /\ ~OutOfRange(b, calls[k][1], calls[k][2])
        cell(k) == PixelOffset(b, calls[k][1], calls[k][2]) + 1
        cells == { cell(k) : k \in { j \in 1..Len(calls) : hit(j) } }
        lastHit(i) == CHOOSE k \in 1..Len(calls) :
                        /\ hit(k) /\ cell(k) = i
                        /\ \A j \in (k + 1)..Len(calls) : ~(hit(j) /\ cell(j) = i)
    IN  [b EXCEPT !.data =
            [i \in 1..Len(b.data) |->
                IF i \in cells THEN PixelValue(calls[lastHit(i)][3])
                ELSE b.data[i]]]

\* for x in range(x0, x0+dx): for y in range(y0, y0+dy): draw_pixel(x, y, 0)
ClearBlockCalls(x0, y0, dx, dy) ==
    IF dx <= 0 \/ dy <= 0 THEN <<>>
    ELSE [k \in 1..(dx * dy) |->
            <<x0 + ((k - 1) \div dy), y0 + ((k - 1) % dy), FALSE>>]

Bitmap_clear_block(b, x0, y0, dx, dy) ==
    DrawPixels(b, ClearBlockCalls(x0, y0, dx, dy))

\* dump(): the store index (Python, 0-based) read for column x of row y
DumpOffset(b, x, y) == y * b.bytes_per_col + b.rows * x

\* the rows of dump() in which a read falls outside the store (IndexError)
DumpBadRows(b) ==
    { y \in 0..(b.rows - 1) :
        \E x \in 0..(b.cols - 1) : DumpOffset(b, x, y) >= Len(b.data) }

\* the line dump() prints for row y
DumpLine(b, y) ==
    <<"|">> \o [i \in 1..b.cols |->
                  IF b.data[DumpOffset(b, i - 1, y) + 1] > 0 THEN "*" ELSE " "]
            \o <<"|">>

\* dump(): one line per row, in order, up to the first row that raises
Bitmap_dump(b) ==
    LET bad == DumpBadRows(b)
        n == IF bad = {} THEN b.rows
             ELSE CHOOSE y \in bad : \A z \in bad : y <= z
    IN  [lines |-> [k \in 1..n |-> DumpLine(b, k - 1)],
         err |-> IF bad = {} THEN "none" ELSE "IndexError"]

----------------------------------------------------------------------------
(* Bitmap.text_width and Bitmap.draw_text: the variable-width kerned font. *)
(* A string is a sequence of code points; a font is a record               *)
(* [start_char, end_char, char_height, gap_width, space_width,             *)
(*  descriptors, kerning, bitmaps].                                        *)

\* prev_char = None
None == -1

\* faulty variant: the first and the last character of the font excluded
Unsupported_exclusive(font, c) == c <= font.start_char \/ c >= font.end_char

\* c < font.start_char or c > font.end_char
Unsupported(font, c) == c < font.start_char \/ c > font.end_char

\* faulty variant: an unsupported character leaves the kerning state alone
AfterUnsupported_keeps(prev_char) == prev_char

\* prev_char = None, after an unsupported character
AfterUnsupported(prev_char) == None

\* text_width: the loop over string[i..], then the tail after the loop
RECURSIVE TextWidthFrom(_, _, _, _, _, _)
TextWidthFrom(font, string, i, x, prev_char, prev_width) ==
    IF i > Len(string)
    THEN IF prev_char # None THEN x + prev_width ELSE x
    ELSE LET c == string[i]
             pos == c - font.start_char
             width == font.descriptors[pos + 1][1]
         IN  IF Unsupported(font, c)
             THEN TextWidthFrom(font, string, i + 1,
                    IF prev_char # None
                    THEN x + font.space_width + prev_width + font.gap_width
                    ELSE x,
                    AfterUnsupported(prev_char), prev_width)
             ELSE TextWidthFrom(font, string, i + 1,
                    IF prev_char # None
                    THEN x + font.kerning[prev_char + 1][pos + 1] + font.gap_width
                    ELSE x,
                    pos, width)

Bitmap_text_width(string, font) == TextWidthFrom(font, string, 1, 0, None, 0)

\* bytes_per_row = (width + 7) * (BITS_PER_PIXEL / 8)
bytes_per_row(width) == (width + 7) * (BITS_PER_PIXEL \div 8)

\* The reads of font.bitmaps draw_text makes for one glyph drawn at x, in
\* order (row by row, column by column): the index p read, the mask tested,
\* and the pixel drawn when the bit is set.
GlyphReads(font, x, y, width, offset) ==
    [k \in 1..(font.char_height * width) |->
        LET row == (k - 1) \div width
            col == (k - 1) % width
        IN  [p |-> offset + row * bytes_per_row(width) + (col \div 8),
             mask |-> \h80 \div (2 ^ (col % 8)),
             px |-> x + col,
             py |-> y + row]]

\* font.bitmaps[p] & mask
BitSet(font, r) == (font.bitmaps[r.p + 1] \div r.mask) % 2 = 1

\* One glyph: the draw_pixel calls made, and whether a read of font.bitmaps
\* fell outside the table (IndexError), which ends draw_text at that read.
DrawGlyph(font, x, y, width, offset) ==
    LET reads == GlyphReads(font, x, y, width, offset)
        bad == { k \in 1..Len(reads) : reads[k].p >= Len(font.bitmaps) }
        n == IF bad = {} THEN Len(reads)
             ELSE (CHOOSE k \in bad : \A j \in bad : k <= j) - 1
        lit == SelectSeq(SubSeq(reads, 1, n), LAMBDA r : BitSet(font, r))
    IN  [calls |-> [k \in 1..Len(lit) |-> <<lit[k].px, lit[k].py, TRUE>>],
         err |-> IF bad = {} THEN "none" ELSE "IndexError"]

\* draw_text: the loop over string[i..], then the tail after the loop; st is
\* [x, prev_char, prev_width, calls, err]
RECURSIVE DrawTextFrom(_, _, _, _, _)
DrawTextFrom(font, string, i, y, st) ==
    IF st.err # "none" THEN st
    ELSE IF i > Len(string)
    THEN IF st.prev_char # None THEN [st EXCEPT !.x = st.x + st.prev_width] ELSE st
    ELSE LET c == string[i]
             pos == c - font.start_char
             width == font.descriptors[pos + 1][1]
             offset == font.descriptors[pos + 1][2]
             x1 == IF st.prev_char # None
                   THEN st.x + font.kerning[st.prev_char + 1][pos + 1] + font.gap_width
                   ELSE st.x
             g == DrawGlyph(font, x1, y, width, offset)
         IN  IF Unsupported(font, c)
             THEN DrawTextFrom(font, string, i + 1, y,
                    [st EXCEPT !.x = IF st.prev_char # None
                                     THEN st.x + font.space_width + st.prev_width
                                          + font.gap_width
                                     ELSE st.x,
                               !.prev_char = AfterUnsupported(st.prev_char)])
             ELSE DrawTextFrom(font, string, i + 1, y,
                    [x |-> x1, prev_char |-> pos, prev_width |-> width,
                     calls |-> st.calls \o g.calls, err |-> g.err])

\* draw_text(x, y, string, font): the store it leaves, the value it returns
\* and the exception it raises
Bitmap_draw_text(b, x, y, string, font) ==
    LET st == DrawTextFrom(font, string, 1, y,
                [x |-> x, prev_char |-> None, prev_width |-> 0,
                 calls |-> <<>>, err |-> "none"])
    IN  [bitmap |-> DrawPixels(b, st.calls),
         ret |-> IF st.err = "none" THEN st.x ELSE 0,
         err |-> st.err]

----------------------------------------------------------------------------
(* The fonts the model draws with.                                         *)

\* A variable-width font of the glyphs 'A'..'P', two rows high, each glyph
\* at most 8 pixels wide: one byte per row, glyph g at offset 2 * g, in a
\* table of exactly 2 * 16 bytes.
KernedFont ==
    LET n == 16
    IN  [start_char |-> 65, end_char |-> 65 + n - 1, char_height |-> 2,
         gap_width |-> 1, space_width |-> 2,
         descriptors |-> [g \in 1..n |-> <<3 + ((g - 1) % 3), 2 * (g - 1)>>],
         kerning |-> [g \in 1..n |-> [h \in 1..n |-> ((g + 2 * h) % 3) - 1]],
         bitmaps |-> [k \in 1..(2 * n) |-> (k * 37 + 160) % 256]]

\* gaugette.font5x8.Font5x8: 5 columns of 8 rows per character, column c of
\* character ch at bytes[ord(ch) * cols + c]; 'A' and 'B' carry their
\* glyphs, the other characters are blank.
Font5x8 ==
    [cols |-> 5, rows |-> 8,
     bytes |-> [k \in 1..(256 * 5) |->
                  IF k - 1 \in 325..329
                  THEN <<\h7E, \h11, \h11, \h11, \h7E>>[k - 325]
                  ELSE IF k - 1 \in 330..334
                  THEN <<\h7F, \h49, \h49, \h49, \h36>>[k - 330]
                  ELSE 0]]

\* the strings of at most MaxStrLen characters over ' ', 'A', 'P', '~'
Alphabet == {32, 65, 80, 126}

Strings == UNION { [1..n -> Alphabet] : n \in 0..MaxStrLen }

WidthStrings == UNION { [1..n -> Alphabet] : n \in 0..MaxWidthLen }

----------------------------------------------------------------------------
(* class SSD1351: construction.                                            *)

\* The drivers the model constructs: [platform, rows, cols, buffer_rows,
\* buffer_cols].
\*  - panel: the 128x128 panel with a 128-row buffer, one per platform;
\*  - small: a buffer of 2 columns and 2 pages, on a 96-row and on a
\*    128-row panel;
\*  - text: a buffer of 4 columns and 1 page, for the text operations;
\*  - fixed: a buffer of 5 columns and 2 pages, which holds one glyph of
\*    the fixed font;
\*  - width: a buffer of 1 column, for text_width on longer strings.
PanelConfigs ==
    { [platform |-> p, rows |-> 128, cols |-> 128, buffer_rows |-> 128,
       buffer_cols |-> 128] : p \in {"raspberrypi", "beaglebone"} }

SmallConfigs ==
    { [platform |-> "beaglebone", rows |-> 96, cols |-> 2,
       buffer_rows |-> 16, buffer_cols |-> 2],
      [platform |-> "raspberrypi", rows |-> 128, cols |-> 2,
       buffer_rows |-> 16, buffer_cols |-> 2] }

TextConfigs ==
    { [platform |-> "raspberrypi", rows |-> 128, cols |-> 4,
       buffer_rows |-> 8, buffer_cols |-> 4] }

FixedConfigs ==
    { [platform |-> "raspberrypi", rows |-> 128, cols |-> 5,
       buffer_rows |-> 16, buffer_cols |-> 5] }

WidthConfigs ==
    { [platform |-> "raspberrypi", rows |-> 128, cols |-> 1,
       buffer_rows |-> 8, buffer_cols |-> 1] }

\* which of these a constructed driver is
Scenario ==
    IF bitmap.cols = 128 THEN "panel"
    ELSE IF bitmap.cols = 1 THEN "width"
    ELSE IF bitmap.cols = 5 THEN "fixed"
    ELSE IF bitmap.rows = 8 THEN "text" ELSE "small"

\* SSD1351.__init__ with the sizes of c
Construct(c) ==
    /\ platform = c.platform
    /\ rows = c.rows
    /\ cols = c.cols
    /\ bitmap = Bitmap_init(c.buffer_cols, c.buffer_rows)
    /\ old = Bitmap_init(c.buffer_cols, c.buffer_rows).data
    /\ col_offset = 0
    /\ rst = HIGH
    /\ dc = LOW
    /\ pc = "idle"
    /\ bytes = <<>> /\ start = 0 /\ remaining = 0
    /\ trace = <<PinEv("rst", HIGH), PinEv("dc", LOW)>>
    /\ last = [op |-> "__init__", a |-> <<>>]
    /\ err = "none"
    /\ ret = 0
    /\ stdout = <<>>
    /\ busFault = FALSE

Init == \E c \in PanelConfigs \cup SmallConfigs : Construct(c)

InitText == \E c \in TextConfigs : Construct(c)

InitFixed == \E c \in FixedConfigs : Construct(c)

InitWidth == \E c \in WidthConfigs : Construct(c)

----------------------------------------------------------------------------
(* class SSD1351: bus operations.                                          *)

\* On the panel the model exercises the scenario draw_pixel ... display()
\* only, on the text buffer the text operations; the small drivers exercise
\* every operation.
Exercised(op) ==
    \/ Scenario = "small"
    \/ Scenario = "panel" /\ op \in {"draw_pixel", "display"}
    \/ Scenario = "text" /\ op \in {"draw_text3", "text_width", "clear_display"}
    \/ Scenario = "fixed" /\ op \in {"draw_text", "draw_text2", "draw_text3",
                                     "draw_pixel", "clear_block",
                                     "clear_display"}
    \/ Scenario = "width" /\ op = "text_width"

\* what every public call starts from
Call(op, a) ==
    /\ pc = "idle"
    /\ Exercised(op)
    /\ last' = [op |-> op, a |-> a]
    /\ old' = bitmap.data

\* a call that returns None and prints nothing
NoOutput == ret' = 0 /\ stdout' = <<>>

\* the events of the first n of the command() calls cmds, issued with the
\* pins at (d, r): command() is one transport write and touches no pin
CommandEvents(cmds, n, d, r) ==
    [i \in 1..n |-> WriteEv("command", cmds[i], d, r)]

\* a run of command() calls of which write number fail raises (0: none does)
Completed(cmds, fail) == IF fail = 0 THEN Len(cmds) ELSE fail - 1

\* faulty variant: the reset pin is not released
ResetEvents_stays_low == <<PinEv("rst", LOW)>>

\* reset(): reset pin LOW, 10 ms, reset pin HIGH
ResetEvents == <<PinEv("rst", LOW), PinEv("rst", HIGH)>>

Reset ==
    /\ Call("reset", <<>>)
    /\ NoOutput
    /\ trace' = ResetEvents
    /\ rst' = HIGH
    /\ err' = "none"
    /\ UNCHANGED <<cfgVars, bitmap, dc, pc, loopVars, busFault>>

\* command(*bytes)
CommandInputs == { <<CMD_STARTLINE, 0>>, <<CMD_SETCOLUMN, 0, 127>> }

Command ==
    \E bs \in CommandInputs, fail \in 0..1 :
        /\ Call("command", bs)
        /\ NoOutput
        /\ trace' = CommandEvents(<<bs>>, Completed(<<bs>>, fail), dc, rst)
        /\ err' = IF fail = 0 THEN "none" ELSE "IOError"
        /\ busFault' = (busFault \/ fail # 0)
        /\ UNCHANGED <<cfgVars, bitmap, dc, rst, pc, loopVars>>

InvertDisplay ==
    \E fail \in 0..1 :
        /\ Call("invert_display", <<>>)
        /\ NoOutput
        /\ trace' = CommandEvents(<<<<CMD_INVERTDISPLAY>>>>,
                                  Completed(<<<<CMD_INVERTDISPLAY>>>>, fail), dc, rst)
        /\ err' = IF fail = 0 THEN "none" ELSE "IOError"
        /\ busFault' = (busFault \/ fail # 0)
        /\ UNCHANGED <<cfgVars, bitmap, dc, rst, pc, loopVars>>

NormalDisplay ==
    \E fail \in 0..1 :
        /\ Call("normal_display", <<>>)
        /\ NoOutput
        /\ trace' = CommandEvents(<<<<CMD_NORMALDISPLAY>>>>,
                                  Completed(<<<<CMD_NORMALDISPLAY>>>>, fail), dc, rst)
        /\ err' = IF fail = 0 THEN "none" ELSE "IOError"
        /\ busFault' = (busFault \/ fail # 0)
        /\ UNCHANGED <<cfgVars, bitmap, dc, rst, pc, loopVars>>

\* begin(): the commands before the test of self.rows, the ones of the
\* 128-row branch, and the ones after it
BeginPrefix ==
    << <<CMD_COMMANDLOCK, \h12>>, <<CMD_COMMANDLOCK, \hB1>>,
       <<CMD_DISPLAYOFF>>, <<CMD_CLOCKDIV, \hF1>> >>

Begin128 == << <<CMD_MUXRATIO, 127>>, <<CMD_SETREMAP, \h74>> >>

\* faulty variant: the display is switched on before it is configured
BeginSuffix_on_first ==
    << <<CMD_DISPLAYON>>,
       <<CMD_SETCOLUMN, \h00, \h7F>>, <<CMD_SETROW, \h00, \h7F>>,
       <<CMD_STARTLINE, \h00>>, <<CMD_DISPLAYOFFSET, \h00>>,
       <<CMD_SETGPIO, \h00>>, <<CMD_FUNCTIONSELECT, \h01>>,
       <<CMD_PRECHARGE, \h32>>, <<CMD_VCOMH, \h05>>, <<CMD_NORMALDISPLAY>>,
       <<CMD_CONTRASTABC, \hC8, \h80, \hC8>>, <<CMD_CONTRASTMASTER, \h0F>>,
       <<CMD_SETVSL, \hA0, \hB5, \h55>>, <<CMD_PRECHARGE2, \h01>> >>

BeginSuffix ==
    << <<CMD_SETCOLUMN, \h00, \h7F>>, <<CMD_SETROW, \h00, \h7F>>,
       <<CMD_STARTLINE, \h00>>, <<CMD_DISPLAYOFFSET, \h00>>,
       <<CMD_SETGPIO, \h00>>, <<CMD_FUNCTIONSELECT, \h01>>,
       <<CMD_PRECHARGE, \h32>>, <<CMD_VCOMH, \h05>>, <<CMD_NORMALDISPLAY>>,
       <<CMD_CONTRASTABC, \hC8, \h80, \hC8>>, <<CMD_CONTRASTMASTER, \h0F>>,
       <<CMD_SETVSL, \hA0, \hB5, \h55>>, <<CMD_PRECHARGE2, \h01>>,
       <<CMD_DISPLAYON>> >>

\* faulty variant: the panel size is tested before the first command
BeginScript_checks_first(r) ==
    IF r = 128 THEN BeginPrefix \o Begin128 \o BeginSuffix ELSE <<>>

\* the command() calls begin() reaches for a panel of r rows: with r # 128
\* it raises after the prefix
BeginScript(r) ==
    IF r = 128 THEN BeginPrefix \o Begin128 \o BeginSuffix ELSE BeginPrefix

\* the pin events begin() produces before its first command: it calls reset()
BeginPinEvents == ResetEvents

Begin ==
    \E fail \in 0..Len(BeginScript(rows)) :
        /\ Call("begin", <<>>)
        /\ NoOutput
        /\ trace' = BeginPinEvents \o
                    CommandEvents(BeginScript(rows),
                                  Completed(BeginScript(rows), fail), dc, HIGH)
        /\ rst' = HIGH
        /\ err' = IF fail # 0 THEN "IOError"
                  ELSE IF rows = 128 THEN "none" ELSE "Unimplemented"
        /\ busFault' = (busFault \/ fail # 0)
        /\ UNCHANGED <<cfgVars, bitmap, dc, pc, loopVars>>

----------------------------------------------------------------------------
(* data(bytes): dc HIGH, the chunk loop, dc LOW.                           *)

\* the payloads of direct data() calls: n bytes, no two neighbours equal
Payload(n) == [i \in 1..n |-> (i * 7) % 251]

DataLens ==
    {0, 1} \cup { k * max_xfer + d : k \in 1..MaxChunks, d \in {-1, 0, 1} }

\* faulty variant: the whole payload in one write
Count_unchunked(rem) == rem

\* count = remaining if remaining <= max_xfer else max_xfer
Count(rem) == IF rem <= max_xfer THEN rem ELSE max_xfer

\* faulty variant: data() forgets to raise the control line
DataEnterLevel_low == LOW

\* the level data() drives the control line to before its first write
DataEnterLevel == HIGH

\* faulty variant: data() leaves the control line raised
DataExitLevel_high == HIGH

\* the level data() drives the control line to after its last write
DataExitLevel == LOW

\* data() up to the loop: the pin goes HIGH, start = 0, remaining = len(bytes)
DataEnter(payload) ==
    /\ dc' = DataEnterLevel
    /\ pc' = "data"
    /\ bytes' = payload
    /\ start' = 0
    /\ remaining' = Len(payload)

DataCall ==
    \E n \in DataLens :
        /\ Call("data", <<n>>)
        /\ NoOutput
        /\ trace' = <<PinEv("dc", DataEnterLevel)>>
        /\ DataEnter(Payload(n))
        /\ err' = "none"
        /\ UNCHANGED <<cfgVars, bitmap, rst, busFault>>

\* one iteration of the loop: the write of bytes[start:start+count] returns
DataChunk ==
    /\ pc = "data"
    /\ remaining > 0
    /\ LET count == Count(remaining)
       IN  /\ remaining' = remaining - count
           /\ trace' = Append(trace,
                         WriteEv("data", Slice(bytes, start, start + count), dc, rst))
           /\ start' = start + count
    /\ UNCHANGED <<cfgVars, bitmap, dc, rst, pc, bytes, last, err, ret, old,
                   stdout, busFault>>

\* one iteration of the loop: the write raises, and data() is left at once
DataChunkFails ==
    /\ pc = "data"
    /\ remaining > 0
    /\ pc' = "idle"
    /\ err' = "IOError"
    /\ busFault' = TRUE
    /\ bytes' = <<>> /\ start' = 0 /\ remaining' = 0
    /\ UNCHANGED <<cfgVars, bitmap, dc, rst, trace, last, ret, old, stdout>>

\* the loop is over: dc LOW, return
DataReturn ==
    /\ pc = "data"
    /\ remaining <= 0
    /\ trace' = Append(trace, PinEv("dc", DataExitLevel))
    /\ dc' = DataExitLevel
    /\ pc' = "idle"
    /\ bytes' = <<>> /\ start' = 0 /\ remaining' = 0
    /\ UNCHANGED <<cfgVars, bitmap, rst, last, err, ret, old, stdout, busFault>>

----------------------------------------------------------------------------
(* display_block, display, display_cols.                                   *)

page_count(b) == b.rows \div 8
page_start(row) == row \div 8
\* faulty variant: the last page one too far
page_end_off_by_one(b, row) == page_start(row) + page_count(b)

page_end(b, row) == page_start(row) + page_count(b) - 1

\* the three command() calls of display_block
BlockCommands(b, row, col, col_count) ==
    << <<CMD_SETREMAP, MEMORY_MODE_VERT>>,
       <<CMD_SETROW, page_start(row), page_end(b, row)>>,
       <<CMD_SETCOLUMN, col, col + col_count - 1>> >>

\* bitmap.data[start:start+length]
BlockPayload(b, col_count, coff) ==
    LET start0 == coff * page_count(b)
        length == col_count * page_count(b)
    IN  Slice(b.data, start0, start0 + length)

\* display_block up to the chunk loop of the data() call that ends it
display_block(b, row, col, col_count, coff) ==
    \E fail \in 0..3 :
        LET cmds == BlockCommands(b, row, col, col_count)
        IN  /\ NoOutput
            /\ IF fail = 0
               THEN /\ trace' = CommandEvents(cmds, 3, dc, rst)
                                 \o <<PinEv("dc", DataEnterLevel)>>
                    /\ DataEnter(BlockPayload(b, col_count, coff))
                    /\ err' = "none"
                    /\ UNCHANGED busFault
               ELSE /\ trace' = CommandEvents(cmds, Completed(cmds, fail), dc, rst)
                    /\ err' = "IOError"
                    /\ busFault' = TRUE
                    /\ UNCHANGED <<dc, pc, loopVars>>
            /\ UNCHANGED <<cfgVars, bitmap, rst>>

\* the bitmaps display_block is called with: the driver's own, or an
\* auxiliary blank one of one page fewer
BitmapArg(tag) ==
    IF tag = "self" THEN bitmap
    ELSE Bitmap_init(bitmap.cols, bitmap.rows - 8)

\* <<bitmap, row, col, col_count, col_offset>>
BlockInputs ==
    { <<"self", 0, 0, bitmap.cols, 0>>, <<"self", 8, 1, 1, 1>>,
      <<"aux", 8, 0, 2, 0>> }

\* <<start_col, count>>
ColsInputs == { <<0, 1>>, <<1, bitmap.cols>> }

Display ==
    /\ Call("display", <<>>)
    /\ display_block(bitmap, 0, 0, cols, col_offset)

DisplayCols ==
    \E in \in ColsInputs :
        /\ Call("display_cols", in)
        /\ display_block(bitmap, 0, in[1], in[2], col_offset)

DisplayBlock ==
    \E in \in BlockInputs :
        /\ Call("display_block", in)
        /\ display_block(BitmapArg(in[1]), in[2], in[3], in[4], in[5])

----------------------------------------------------------------------------
(* In-memory operations.                                                   *)

\* faulty variant: an in-memory call that also sends a command
MemoryOnly_flushes ==
    /\ trace' = CommandEvents(<<<<CMD_NORMALDISPLAY>>>>, 1, dc, rst)
    /\ UNCHANGED <<cfgVars, dc, rst, pc, loopVars, busFault>>

\* what a call that touches neither the bus nor a pin leaves alone
MemoryOnly ==
    /\ trace' = <<>>
    /\ UNCHANGED <<cfgVars, dc, rst, pc, loopVars, busFault>>

PixelInputs ==
    IF Scenario = "panel"
    THEN { <<5, 5>>, <<5, bitmap.rows>> }
    ELSE { <<0, 0>>, <<0, 7>>, <<1, 8>>,
           <<-1, 0>>, <<bitmap.cols, 0>>, <<0, -1>>, <<0, bitmap.rows>> }

DrawPixel ==
    \E p \in PixelInputs, on \in BOOLEAN :
        /\ Call("draw_pixel", <<p[1], p[2], on>>)
        /\ NoOutput
        /\ bitmap' = Bitmap_draw_pixel(bitmap, p[1], p[2], on)
        /\ err' = "none"
        /\ MemoryOnly

ClearDisplay ==
    /\ Call("clear_display", <<>>)
    /\ NoOutput
    /\ bitmap' = Bitmap_clear(bitmap)
    /\ err' = "none"
    /\ MemoryOnly

\* <<x0, y0, dx, dy>>
BlockClearInputs ==
    { <<-1, -1, 2, 9>>, <<1, 8, bitmap.cols, 1>>, <<0, 0, 0, 3>> }

ClearBlock ==
    \E in \in BlockClearInputs :
        /\ Call("clear_block", in)
        /\ NoOutput
        /\ bitmap' = Bitmap_clear_block(bitmap, in[1], in[2], in[3], in[4])
        /\ err' = "none"
        /\ MemoryOnly

DumpBuffer ==
    /\ Call("dump_buffer", <<>>)
    /\ ret' = 0
    /\ stdout' = Bitmap_dump(bitmap).lines
    /\ err' = Bitmap_dump(bitmap).err
    /\ UNCHANGED bitmap
    /\ MemoryOnly

----------------------------------------------------------------------------
(* Text operations of the driver.                                          *)

\* bit row of a font byte, LSB first: what mask & 0x1 is after row shifts
FontBit(byte, row) == (byte \div (2 ^ row)) % 2 = 1

\* draw_text(x, y, string): the draw_pixel calls, character by character,
\* column by column, row by row
DrawTextCalls(x, y, string) ==
    LET font_cols == Font5x8.cols
        per == font_cols * 8
    IN  [k \in 1..(Len(string) * per) |->
            LET ci == (k - 1) \div per
                col == ((k - 1) % per) \div 8
                row == (k - 1) % 8
                p == string[ci + 1] * font_cols + col
            IN  <<x + ci * font_cols + col, y + row,
                  FontBit(Font5x8.bytes[p + 1], row)>>]

\* draw_text2(x, y, string, size, space): every font pixel drawn as a
\* size x size block; x advances by size per column and by space per character
DrawText2Calls(x, y, string, size, space) ==
    LET font_cols == Font5x8.cols
        perRow == size * size
        perCol == 8 * perRow
        per == font_cols * perCol
    IN  [k \in 1..(Len(string) * per) |->
            LET ci == (k - 1) \div per
                col == ((k - 1) % per) \div perCol
                row == ((k - 1) % perCol) \div perRow
                sy == ((k - 1) % perRow) \div size
                sx == (k - 1) % size
                p == string[ci + 1] * font_cols + col
            IN  <<x + ci * (font_cols * size + space) + col * size + sx,
                  y + row * size + sy,
                  FontBit(Font5x8.bytes[p + 1], row)>>]

\* <<x, y, string>>
TextInputs == { <<0, 0, <<65>>>>, <<-1, 9, <<65, 66>>>> }

DrawText ==
    \E in \in TextInputs :
        /\ Call("draw_text", in)
        /\ NoOutput
        /\ bitmap' = DrawPixels(bitmap, DrawTextCalls(in[1], in[2], in[3]))
        /\ err' = "none"
        /\ MemoryOnly

\* <<x, y, string, size, space>>
Text2Inputs == { <<0, 0, <<65>>, 2, 1>>, <<-4, 2, <<66>>, 1, 0>> }

DrawText2 ==
    \E in \in Text2Inputs :
        /\ Call("draw_text2", in)
        /\ NoOutput
        /\ bitmap' = DrawPixels(bitmap,
                        DrawText2Calls(in[1], in[2], in[3], in[4], in[5]))
        /\ err' = "none"
        /\ MemoryOnly

\* the start positions of draw_text3
Origins == { <<0, 0>>, <<1, 3>> }

\* the strings handed to draw_text3 and text_width: all of them on the text
\* buffer, three on the small ones
TextStrings ==
    IF Scenario = "text" THEN Strings
    ELSE IF Scenario = "width" THEN WidthStrings
    ELSE { <<65>>, <<65, 32, 66>>, <<80>> }

\* draw_text3(x, y, string, font) is bitmap.draw_text(x, y, string, font)
DrawText3 ==
    \E o \in Origins, string \in TextStrings :
        LET r == Bitmap_draw_text(bitmap, o[1], o[2], string, KernedFont)
        IN  /\ Call("draw_text3", <<o[1], o[2], string>>)
            /\ bitmap' = r.bitmap
            /\ ret' = r.ret
            /\ err' = r.err
            /\ stdout' = <<>>
            /\ MemoryOnly

\* text_width(string, font) is bitmap.text_width(string, font)
TextWidth ==
    \E string \in TextStrings :
        /\ Call("text_width", <<string>>)
        /\ ret' = Bitmap_text_width(string, KernedFont)
        /\ err' = "none"
        /\ stdout' = <<>>
        /\ UNCHANGED bitmap
        /\ MemoryOnly

----------------------------------------------------------------------------
Next ==
    \/ Reset
    \/ Command
    \/ InvertDisplay
    \/ NormalDisplay
    \/ Begin
    \/ DataCall
    \/ DataChunk
    \/ DataChunkFails
    \/ DataReturn
    \/ Display
    \/ DisplayCols
    \/ DisplayBlock
    \/ DrawPixel
    \/ ClearDisplay
    \/ ClearBlock
    \/ DumpBuffer
    \/ DrawText
    \/ DrawText2
    \/ DrawText3
    \/ TextWidth

Spec == Init /\ [][Next]_vars

\* the text operations on their own, over every string
NextText ==
    \/ DrawText3
    \/ TextWidth
    \/ ClearDisplay

SpecText == InitText /\ [][NextText]_vars

\* the drawing operations on a buffer one glyph of the fixed font wide
NextFixed ==
    \/ DrawText
    \/ DrawText2
    \/ DrawText3
    \/ DrawPixel
    \/ ClearBlock
    \/ ClearDisplay

SpecFixed == InitFixed /\ [][NextFixed]_vars

\* text_width on its own, over longer strings
NextWidth == TextWidth

SpecWidth == InitWidth /\ [][NextWidth]_vars

----------------------------------------------------------------------------
(* Properties.                                                             *)

DataOps == {"data", "display", "display_cols", "display_block"}

BusOps == DataOps \cup {"begin", "invert_display", "normal_display", "command"}

MemOps == {"draw_pixel", "draw_text", "draw_text2", "draw_text3", "text_width",
           "clear_block", "clear_display"}

\* the public call last has returned normally
Returned(ops) == pc = "idle" /\ last.op \in ops /\ err = "none"

IsDataWrite(e) == e.kind = "write" /\ e.src = "data"
IsCommandWrite(e) == e.kind = "write" /\ e.src = "command"
IsDcEvent(e, l) == e.kind = "pin" /\ e.pin = "dc" /\ e.level = l

\* the payloads of the data writes of the current call, in order
DataChunks == [i \in 1..Len(WritesOf(trace, "data")) |-> WritesOf(trace, "data")[i].bytes]

(* C1: for every payload passed to data(), also one longer than max_xfer,  *)
(* the control line is raised before the first transport write, is high at *)
(* every transport write of the call, is lowered only after the last one,  *)
(* and is low when data() returns.                                         *)
C1_ControlLineFramesData ==
    /\ pc = "data" => dc = 1
    /\ \A i \in 1..Len(trace) :
          IsDataWrite(trace[i]) =>
             /\ trace[i].dc = 1
             /\ \E j \in 1..(i - 1) : IsDcEvent(trace[j], 1)
             /\ \A j \in 1..i : ~IsDcEvent(trace[j], 0)
    /\ Returned(DataOps) =>
          /\ dc = 0
          /\ IsDcEvent(trace[Len(trace)], 0)
          /\ \A j \in 1..(Len(trace) - 1) : ~IsDcEvent(trace[j], 0)

\* a direct data() call of more than max_xfer bytes has returned
C1_Witness ==
    /\ Returned({"data"})
    /\ last.a[1] > max_xfer
    /\ Len(DataChunks) >= 2

(* C2: data() on a payload of n bytes with maximum transfer size m makes   *)
(* exactly ceil(n/m) transport writes, each of 1..m bytes, all but the     *)
(* last of m bytes, whose concatenation in order is the payload; inside    *)
(* the loop start + remaining = n with remaining >= 0.                     *)
C2_ChunksPartitionPayload ==
    /\ pc = "data" => remaining >= 0 /\ start + remaining = Len(bytes)
    /\ Returned({"data"}) =>
          LET n == last.a[1]
              m == IF platform = "beaglebone" THEN 255 ELSE 1024
              w == DataChunks
          IN  /\ Len(w) = (n + m - 1) \div m
              /\ \A i \in 1..Len(w) :
                    /\ Len(w[i]) >= 1
                    /\ Len(w[i]) <= m
                    /\ i < Len(w) => Len(w[i]) = m
              /\ Concat(w) = Payload(n)

\* a payload of two full chunks and one byte went out as three writes
C2_Witness ==
    /\ Returned({"data"})
    /\ last.a[1] = 2 * max_xfer + 1
    /\ Len(DataChunks) = 3
    /\ Len(DataChunks[3]) = 1

\* the events begin() produces when it stops at the test of self.rows
C3_ResetThenFourCommands ==
    /\ Len(trace) = 6
    /\ trace[1].kind = "pin" /\ trace[1].pin = "rst" /\ trace[1].level = 0
    /\ trace[2].kind = "pin" /\ trace[2].pin = "rst" /\ trace[2].level = 1
    /\ \A i \in 3..6 : IsCommandWrite(trace[i])
    /\ <<trace[3].bytes, trace[4].bytes, trace[5].bytes, trace[6].bytes>>
         = << <<253, 18>>, <<253, 177>>, <<174>>, <<179, 241>> >>

(* C3 (as claimed): with rows # 128, begin() raises the unsupported-       *)
(* configuration error before any reset-pin change and any command: the    *)
(* call's trace of pin and bus events is empty.                            *)
C3_RaisesBeforeAnyEvent ==
    (pc = "idle" /\ last.op = "begin" /\ rows # 128 /\ err = "Unimplemented")
        => trace = <<>>

(* C3 (amended): with rows # 128, begin() never returns normally; when no  *)
(* transport write fails it raises the unsupported-configuration error     *)
(* after the reset pulse and after exactly the four commands command-lock  *)
(* 0x12, command-lock 0xB1, display-off and clock-divider 0xF1, and writes *)
(* nothing after them.                                                     *)
C3_RaisesAfterResetAndFourCommands ==
    (pc = "idle" /\ last.op = "begin" /\ rows # 128) =>
        /\ err \in {"Unimplemented", "IOError"}
        /\ err = "Unimplemented" => C3_ResetThenFourCommands
        /\ rst = 1

\* begin() on a 96-row panel has raised the unsupported-configuration error
C3_Witness ==
    /\ pc = "idle" /\ last.op = "begin" /\ rows # 128
    /\ err = "Unimplemented"
    /\ Len(Writes(trace)) = 4

\* the arguments display_block runs with in the current call
C4_Args ==
    IF last.op = "display"
    THEN [b |-> bitmap, row |-> 0, col |-> 0, n |-> cols, off |-> col_offset]
    ELSE IF last.op = "display_cols"
    THEN [b |-> bitmap, row |-> 0, col |-> last.a[1], n |-> last.a[2],
          off |-> col_offset]
    ELSE [b |-> BitmapArg(last.a[1]), row |-> last.a[2], col |-> last.a[3],
          n |-> last.a[4], off |-> last.a[5]]

\* bitmap.data[off*pageCount : off*pageCount + n*pageCount]
C4_Payload(a) ==
    LET pages == a.b.rows \div 8
        lo == a.off * pages
        hi == IF lo + a.n * pages <= Len(a.b.data) THEN lo + a.n * pages
              ELSE Len(a.b.data)
    IN  [k \in 1..(IF hi > lo THEN hi - lo ELSE 0) |-> a.b.data[lo + k]]

(* C4: display_block(bitmap, row, col, col_count, col_offset), and with it *)
(* display() and display_cols(), puts on the bus, in this order and        *)
(* nothing else: SETREMAP(vertical), SETROW(row/8, row/8 + rows/8 - 1),    *)
(* SETCOLUMN(col, col + col_count - 1), then one data() transfer of the    *)
(* slice data[col_offset*pages : col_offset*pages + col_count*pages]; for  *)
(* the 128x128 panel with a 128-row buffer display() sends set-row(0,15),  *)
(* set-column(0,127) and exactly 2048 bytes.                               *)
C4_BlockTransfer ==
    Returned({"display", "display_cols", "display_block"}) =>
        LET a == C4_Args
            pages == a.b.rows \div 8
            n == Len(trace)
        IN  /\ n >= 5
            /\ \A i \in 1..3 : IsCommandWrite(trace[i])
            /\ trace[1].bytes = <<160, 1>>
            /\ trace[2].bytes = <<117, a.row \div 8, (a.row \div 8) + pages - 1>>
            /\ trace[3].bytes = <<21, a.col, a.col + a.n - 1>>
            /\ IsDcEvent(trace[4], 1)
            /\ \A i \in 5..(n - 1) : IsDataWrite(trace[i])
            /\ IsDcEvent(trace[n], 0)
            /\ Concat(DataChunks) = C4_Payload(a)
            /\ (Scenario = "panel" /\ last.op = "display") =>
                  /\ trace[2].bytes = <<117, 0, 15>>
                  /\ trace[3].bytes = <<21, 0, 127>>
                  /\ Len(Concat(DataChunks)) = 2048

\* display() on the panel has returned after draw_pixel(5, 5, true)
C4_Witness ==
    /\ Returned({"display"})
    /\ Scenario = "panel"
    /\ bitmap.data[5 * 128 + 1] = 15
    /\ Len(DataChunks) >= 2
    /\ DataChunks[1][5 * 128 + 1] = 15

(* C5 (as claimed): for every string and font, draw_text3(x0, y, s, font)  *)
(* returns x0 + text_width(s, font).                                       *)
C5_DrawTextReturnsWidth ==
    (pc = "idle" /\ last.op = "draw_text3") =>
        /\ err = "none"
        /\ ret = last.a[1] + Bitmap_text_width(last.a[3], KernedFont)

\* draw_text3 has raised on a string the font supports
C5_Raised ==
    /\ pc = "idle" /\ last.op = "draw_text3"
    /\ err = "IndexError"
    /\ \A i \in 1..Len(last.a[3]) : ~Unsupported(KernedFont, last.a[3][i])

\* the coordinates of the draw_pixel call last are outside the buffer
C6_Outside ==
    \/ last.a[1] < 0
    \/ last.a[1] >= bitmap.cols
    \/ last.a[2] < 0
    \/ last.a[2] >= bitmap.rows

(* C6: for every (x, y) with x < 0 or x >= cols or y < 0 or y >= rows and  *)
(* either value of on, draw_pixel(x, y, on) returns without error and      *)
(* leaves every element of the backing store unchanged.                    *)
C6_OutOfRangeIgnored ==
    (pc = "idle" /\ last.op = "draw_pixel" /\ C6_Outside) =>
        /\ err = "none"
        /\ bitmap.data = old

\* draw_pixel(cols, 0, true) has returned on a buffer that is not blank
C6_Witness ==
    /\ pc = "idle" /\ last.op = "draw_pixel"
    /\ last.a[1] = bitmap.cols /\ last.a[2] = 0 /\ last.a[3]
    /\ \E i \in 1..Len(old) : old[i] # 0
    /\ bitmap.data = old

\* the index in the store of the granule of the draw_pixel call last
C7_Granule == (last.a[2] \div 8) + bitmap.rows * last.a[1] + 1

\* the draw_pixel call last was in range
C7_InRange == last.op = "draw_pixel" /\ ~C6_Outside

\* the next step is draw_pixel at the coordinates of the call last
C7_SamePixelAgain ==
    /\ C7_InRange
    /\ pc = "idle" /\ pc' = "idle"
    /\ last'.op = "draw_pixel"
    /\ last'.a[1] = last.a[1]
    /\ last'.a[2] = last.a[2]

(* C7: for every in-range (x, y), from a buffer whose granule of (x, y)    *)
(* holds zero, draw_pixel(x, y, true) then draw_pixel(x, y, false)         *)
(* restores the whole backing store; and draw_pixel(x, y, on) repeated     *)
(* with the same on leaves the buffer as the first call left it.           *)
C7_OnOffRestoresAndIdempotent ==
    [][ /\ (C7_SamePixelAgain /\ last.a[3] /\ ~last'.a[3] /\ old[C7_Granule] = 0)
           => bitmap'.data = old
        /\ (C7_SamePixelAgain /\ last'.a[3] = last.a[3])
           => bitmap'.data = bitmap.data ]_vars

\* a lit granule has been turned off again and the store is what it was
\* before the pixel was lit
C7_Witness ==
    /\ pc = "idle" /\ C7_InRange /\ ~last.a[3]
    /\ old[C7_Granule] = 15
    /\ bitmap.data[C7_Granule] = 0
    /\ \A i \in 1..Len(old) : i # C7_Granule => bitmap.data[i] = old[i]
    /\ \E i \in 1..Len(old) : i # C7_Granule /\ old[i] # 0

(* C8 (as claimed): after clear() every element of the backing store is    *)
(* zero, and a following dump() completes, every index it reads being      *)
(* inside the store, and prints rows lines of cols blank cells.            *)
C8_ClearThenDumpIsBlank ==
    /\ (pc = "idle" /\ last.op = "clear_display") =>
          \A i \in 1..Len(bitmap.data) : bitmap.data[i] = 0
    /\ (pc = "idle" /\ last.op = "dump_buffer"
          /\ \A i \in 1..Len(bitmap.data) : bitmap.data[i] = 0) =>
          /\ err = "none"
          /\ Len(stdout) = bitmap.rows
          /\ \A k \in 1..Len(stdout) :
                stdout[k] = <<"|">> \o [i \in 1..bitmap.cols |-> " "] \o <<"|">>

\* dump() of a blank buffer has raised before printing every row
C8_Raised ==
    /\ pc = "idle" /\ last.op = "dump_buffer"
    /\ \A i \in 1..Len(bitmap.data) : bitmap.data[i] = 0
    /\ err = "IndexError"
    /\ Len(stdout) < bitmap.rows

(* C9: draw_pixel, draw_text, draw_text2, draw_text3, text_width,          *)
(* clear_block and clear_display never write to the bus and never change a *)
(* pin level; every transport write belongs to begin, display,             *)
(* display_cols, display_block, invert_display, normal_display, command or *)
(* data.                                                                   *)
C9_MemoryOpsLeaveBusAlone ==
    [][ /\ last'.op \in MemOps =>
              /\ trace' = <<>>
              /\ dc' = dc
              /\ rst' = rst
              /\ pc' = "idle"
        /\ Writes(trace') # <<>> => last'.op \in BusOps ]_vars

\* an in-memory call has changed the buffer while the control line was
\* left high by a failed transfer
C9_Witness ==
    /\ pc = "idle" /\ last.op \in MemOps
    /\ bitmap.data # old
    /\ trace = <<>>
    /\ dc = 1

(* C10: command(opcode, operands...) makes exactly one transport write of  *)
(* the opcode followed by the operands in order and does not change the    *)
(* control line; as long as every public operation has completed normally  *)
(* the control line is low at every command write.                         *)
C10_CommandIsOneWriteAtLow ==
    /\ Returned({"command"}) =>
          /\ Len(trace) = 1
          /\ IsCommandWrite(trace[1])
          /\ trace[1].bytes = last.a
          /\ trace[1].dc = dc
    /\ ~busFault =>
          /\ pc = "idle" => dc = 0
          /\ \A i \in 1..Len(trace) : IsCommandWrite(trace[i]) => trace[i].dc = 0

\* a block has been flushed with every write succeeding: its three commands
\* went out at low, its data at high
C10_Witness ==
    /\ ~busFault
    /\ Returned({"display_block"})
    /\ \E i \in 1..Len(trace) : IsCommandWrite(trace[i]) /\ trace[i].dc = 0
    /\ \E i \in 1..Len(trace) : IsDataWrite(trace[i]) /\ trace[i].dc = 1

\* the commands of begin() on a 128-row panel, as the data sheet names them
C11_Sequence ==
    << <<\hFD, \h12>>, <<\hFD, \hB1>>, <<\hAE>>, <<\hB3, \hF1>>,
       <<\hCA, 127>>, <<\hA0, \h74>>, <<\h15, 0, 127>>, <<\h75, 0, 127>>,
       <<\hA1, 0>>, <<\hA2, 0>>, <<\hB5, 0>>, <<\hAB, 1>>, <<\hB1, \h32>>,
       <<\hBE, 5>>, <<\hA6>>, <<\hC1, \hC8, \h80, \hC8>>, <<\hC7, \h0F>>,
       <<\hB4, \hA0, \hB5, \h55>>, <<\hB6, 1>>, <<\hAF>> >>

\* the opcodes of the configuration commands
C11_ConfigOpcodes ==
    { \hB3, \hCA, \hA0, \h15, \h75, \hA1, \hA2, \hB5, \hAB, \hB1, \hBE, \hC1,
      \hC7, \hB4, \hB6 }

(* C11: with rows = 128, begin() pulses the reset pin low then high before *)
(* its first command; the first two commands are command-lock 0xFD 0x12    *)
(* and 0xFD 0xB1; display-off is written before every configuration        *)
(* command; display-on is the last command and is written once; the order  *)
(* of the commands is the same on every call (a call cut short by a failed *)
(* write has written a prefix of it).                                      *)
C11_BeginOrder ==
    (pc = "idle" /\ last.op = "begin" /\ rows = 128) =>
        LET w == Writes(trace)
            op(i) == w[i].bytes[1]
        IN  /\ Len(trace) = Len(w) + 2
            /\ trace[1].kind = "pin" /\ trace[1].pin = "rst" /\ trace[1].level = 0
            /\ trace[2].kind = "pin" /\ trace[2].pin = "rst" /\ trace[2].level = 1
            /\ \A i \in 3..Len(trace) : IsCommandWrite(trace[i])
            /\ Len(w) <= Len(C11_Sequence)
            /\ \A i \in 1..Len(w) : w[i].bytes = C11_Sequence[i]
            /\ err = "none" =>
                  /\ Len(w) = Len(C11_Sequence)
                  /\ w[1].bytes = <<\hFD, \h12>> /\ w[2].bytes = <<\hFD, \hB1>>
                  /\ \E k \in 1..Len(w) :
                        /\ op(k) = \hAE
                        /\ \A i \in 1..Len(w) :
                              op(i) \in C11_ConfigOpcodes => k < i
                  /\ op(Len(w)) = \hAF
                  /\ Cardinality({i \in 1..Len(w) : op(i) = \hAF}) = 1

\* begin() has returned on a 128-row panel
C11_Witness ==
    /\ Returned({"begin"})
    /\ rows = 128
    /\ Len(Writes(trace)) = 20

\* pixel (x, y) as the store gives it back: non-zero is on
ReadsOn(data, x, y) == data[(y \div 8) + bitmap.rows * x + 1] # 0

(* C12 (as claimed): on a cleared buffer, draw_text(0, 0, s) for a string  *)
(* s of one character ch leaves, for every glyph column c in               *)
(* [0, font_cols) and every row r in [0, 8), pixel (c, r) on if and only   *)
(* if bit r (LSB first) of font byte ord(ch) * font_cols + c is 1.         *)
C12_GlyphReproduced ==
    (/\ pc = "idle" /\ last.op = "draw_text"
     /\ last.a[1] = 0 /\ last.a[2] = 0 /\ Len(last.a[3]) = 1
     /\ \A i \in 1..Len(old) : old[i] = 0) =>
        \A c \in 0..4, r \in 0..7 :
            ReadsOn(bitmap.data, c, r)
              <=> ((Font5x8.bytes[last.a[3][1] * 5 + c + 1] \div (2 ^ r)) % 2 = 1)

\* draw_text(0, 0, "A") on a cleared buffer has left every pixel off
C12_Blank ==
    /\ pc = "idle" /\ last.op = "draw_text"
    /\ last.a = <<0, 0, <<65>>>>
    /\ \A i \in 1..Len(old) : old[i] = 0
    /\ \A i \in 1..Len(bitmap.data) : bitmap.data[i] = 0

\* the string of the text_width call last
WidthArg == last.a[1]

\* c is a character of the font
C13_InRange(font, c) == c >= font.start_char /\ c <= font.end_char

\* the machine run over s[i..] from state st with advance adv; st is
\* [has |-> FALSE] (NO_PREVIOUS) or [has |-> TRUE, pos, width]
RECURSIVE C13_Run(_, _, _, _, _)
C13_Run(font, s, i, st, adv) ==
    IF i > Len(s)
    THEN IF st.has THEN adv + st.width ELSE adv
    ELSE IF C13_InRange(font, s[i])
    THEN LET pos == s[i] - font.start_char
             nxt == [has |-> TRUE, pos |-> pos,
                     width |-> font.descriptors[pos + 1][1]]
         IN  IF st.has
             THEN C13_Run(font, s, i + 1, nxt,
                          adv + font.kerning[st.pos + 1][pos + 1] + font.gap_width)
             ELSE C13_Run(font, s, i + 1, nxt, adv)
    ELSE IF st.has
         THEN C13_Run(font, s, i + 1, [has |-> FALSE, pos |-> 0, width |-> 0],
                      adv + font.space_width + st.width + font.gap_width)
         ELSE C13_Run(font, s, i + 1, st, adv)

(* C13: text_width(s, font) is the advance of the machine NO_PREVIOUS /    *)
(* HAS_PREVIOUS(pos, width) run over s from NO_PREVIOUS with advance 0:    *)
(* kerning + gap between two glyphs, space + previous width + gap at an    *)
(* out-of-range character after a glyph, the previous width and no gap at  *)
(* the end; the empty string and a string of out-of-range characters only  *)
(* have width 0.                                                           *)
C13_WidthIsMachineAdvance ==
    (pc = "idle" /\ last.op = "text_width") =>
        /\ err = "none"
        /\ ret = C13_Run(KernedFont, WidthArg, 1,
                         [has |-> FALSE, pos |-> 0, width |-> 0], 0)
        /\ (\A i \in 1..Len(WidthArg) : ~C13_InRange(KernedFont, WidthArg[i]))
              => ret = 0

\* text_width("AP~P"): a kerned pair, a flush and a last glyph
C13_Witness ==
    /\ pc = "idle" /\ last.op = "text_width"
    /\ WidthArg = <<65, 80, 126, 80>>
    /\ ret = (-1 + 1) + (2 + 3 + 1) + 3

\* s without its element i
C14_Without(s, i) == SubSeq(s, 1, i - 1) \o SubSeq(s, i + 1, Len(s))

(* C14: a run of consecutive out-of-range characters flushes the pending   *)
(* advance once: removing an out-of-range character that follows another   *)
(* one does not change text_width (so u + k of them + v has the width of   *)
(* u + one of them + v), and neither does removing a leading one.          *)
C14_RunFlushesOnce ==
    (pc = "idle" /\ last.op = "text_width") =>
        /\ \A i \in 2..Len(WidthArg) :
              (/\ ~C13_InRange(KernedFont, WidthArg[i - 1])
               /\ ~C13_InRange(KernedFont, WidthArg[i]))
              => ret = Bitmap_text_width(C14_Without(WidthArg, i), KernedFont)
        /\ (Len(WidthArg) >= 1 /\ ~C13_InRange(KernedFont, WidthArg[1]))
              => ret = Bitmap_text_width(Tail(WidthArg), KernedFont)

\* text_width("A ~P") is the width of "A P"
C14_Witness ==
    /\ pc = "idle" /\ last.op = "text_width"
    /\ WidthArg = <<65, 32, 126, 80>>
    /\ ret = Bitmap_text_width(<<65, 32, 80>>, KernedFont)
    /\ ret = (2 + 3 + 1) + 3

\* the glyph of the one-character string of the draw_text3 call last
C15_Pos == last.a[3][1] - KernedFont.start_char
C15_Width == KernedFont.descriptors[C15_Pos + 1][1]
C15_Offset == KernedFont.descriptors[C15_Pos + 1][2]

\* bit (7 - col mod 8) of byte o + r * ceil(w/8) + floor(col/8)
C15_Bit(col, r) ==
    LET byte == KernedFont.bitmaps[C15_Offset + r * ((C15_Width + 7) \div 8)
                                   + (col \div 8) + 1]
    IN  (byte \div (2 ^ (7 - (col % 8)))) % 2 = 1

\* the store offsets of the in-range pixels of the glyph whose bit is 1
C15_Lit ==
    { ((last.a[2] + r) \div 8) + bitmap.rows * (last.a[1] + col) :
        <<col, r>> \in { q \in (0..(C15_Width - 1)) \X (0..(KernedFont.char_height - 1)) :
                           /\ C15_Bit(q[1], q[2])
                           /\ last.a[1] + q[1] < bitmap.cols
                           /\ last.a[2] + q[2] < bitmap.rows } }

(* C15 (as claimed): draw_text3 of an in-range glyph of width w and offset *)
(* o reads row r at font.bitmaps[o + r * ceil(w/8)] and sets pixel         *)
(* (x + col, y + r) on exactly when bit (7 - col mod 8) of byte            *)
(* o + r * ceil(w/8) + floor(col/8) is 1; pixels whose bit is 0 are not    *)
(* written.  Stated for a one-glyph string on a cleared buffer: the call   *)
(* returns and the store holds 0xF exactly at the pixels whose bit is 1.   *)
C15_RowMajorMsbFirst ==
    (/\ pc = "idle" /\ last.op = "draw_text3"
     /\ Len(last.a[3]) = 1 /\ C13_InRange(KernedFont, last.a[3][1])
     /\ \A i \in 1..Len(old) : old[i] = 0) =>
        /\ err = "none"
        /\ \A i \in 1..Len(bitmap.data) :
              bitmap.data[i] = IF (i - 1) \in C15_Lit THEN \h0F ELSE 0

(* C16 (as claimed): for every bitmap and column range                     *)
(* [col_offset, col_offset + col_count) inside [0, bitmap.cols), the store *)
(* offsets display_block sends are exactly the offsets draw_pixel writes   *)
(* for the pixels with x in that range and y in [0, rows).                 *)
C16_SliceIsPixelColumns ==
    Returned({"display", "display_cols", "display_block"}) =>
        LET a == C4_Args
            pages == a.b.rows \div 8
            sent == (a.off * pages)..(a.off * pages + a.n * pages - 1)
            drawn == { (y \div 8) + a.b.rows * x :
                         x \in a.off..(a.off + a.n - 1), y \in 0..(a.b.rows - 1) }
        IN  (a.off >= 0 /\ a.off + a.n <= a.b.cols) => sent = drawn

(* C17 (as claimed): each pixel has its own granule: draw_pixel(x, y, on)  *)
(* in range does not change what any other in-range pixel reads back, and  *)
(* clear_block(x0, y0, dx, dy) leaves every pixel outside the rectangle    *)
(* unchanged.                                                              *)
C17_OnePixelPerGranule ==
    /\ (pc = "idle" /\ last.op = "draw_pixel" /\ ~C6_Outside) =>
          \A x \in 0..(bitmap.cols - 1), y \in 0..(bitmap.rows - 1) :
              <<x, y>> # <<last.a[1], last.a[2]>>
                => (ReadsOn(bitmap.data, x, y) <=> ReadsOn(old, x, y))
    /\ (pc = "idle" /\ last.op = "clear_block") =>
          \A x \in 0..(bitmap.cols - 1), y \in 0..(bitmap.rows - 1) :
              ~(/\ x >= last.a[1] /\ x < last.a[1] + last.a[3]
                /\ y >= last.a[2] /\ y < last.a[2] + last.a[4])
                => (ReadsOn(bitmap.data, x, y) <=> ReadsOn(old, x, y))

(* C18: after construction the reset pin is high and the control line is   *)
(* low; the reset pin is low only between the two pin writes of reset():   *)
(* it is high whenever a public operation returns and at every bus write.  *)
C18_ResetPinIdlesHigh ==
    /\ last.op = "__init__" => rst = 1 /\ dc = 0
    /\ rst = 1
    /\ \A i \in 1..Len(trace) :
          /\ trace[i].kind = "write" => trace[i].rst = 1
          /\ (trace[i].kind = "pin" /\ trace[i].pin = "rst" /\ trace[i].level = 0)
                => /\ i < Len(trace)
                   /\ trace[i + 1].kind = "pin"
                   /\ trace[i + 1].pin = "rst"
                   /\ trace[i + 1].level = 1

\* reset() has returned: low, then high
C18_Witness ==
    /\ pc = "idle" /\ last.op = "reset"
    /\ Len(trace) = 2
    /\ trace[1].level = 0 /\ trace[2].level = 1
    /\ rst = 1

(* C19 (as claimed): when a transport write fails inside data(), also when *)
(* display, display_cols or display_block called it, the control line is   *)
(* back at the command level (low) when control returns to the caller.     *)
C19_FailedTransferLowersControlLine ==
    (pc = "idle" /\ last.op \in DataOps /\ err = "IOError") => dc = 0

\* a chunk of a transfer has failed and the control line is still high
C19_LeftHigh ==
    /\ pc = "idle" /\ last.op \in DataOps /\ err = "IOError"
    /\ dc = 1

(* C20: in every state reachable by clear, draw_pixel, clear_block and the *)
(* text operations with arbitrary coordinates, the backing store has the   *)
(* length cols * bytes_per_col it was created with, every element is 0 or  *)
(* 0xF, and the store index of every in-range pixel is inside the store.   *)
C20_StoreShape ==
    /\ bitmap.bytes_per_col = bitmap.rows * 2
    /\ Len(bitmap.data) = bitmap.cols * bitmap.bytes_per_col
    /\ \A i \in 1..Len(bitmap.data) : bitmap.data[i] \in {0, 15}
    /\ \A x \in 0..(bitmap.cols - 1), y \in 0..(bitmap.rows - 1) :
          (y \div 8) + bitmap.rows * x < Len(bitmap.data)

\* clear_block from a negative corner has run on a buffer with lit pixels
C20_Witness ==
    /\ pc = "idle" /\ last.op = "clear_block"
    /\ last.a[1] < 0 /\ last.a[2] < 0
    /\ bitmap.data # old
    /\ \E i \in 1..Len(bitmap.data) : bitmap.data[i] = 15

====
